---- MODULE Spec2Model ----
(***************************************************************************)
(* The pipeline orchestrator of frontend/src/App.js (component             *)
(* YoutubePipeline): the React state of the component, the socket event    *)
(* handlers registered on mount, the user operations, and the suspended    *)
(* loops of startFullPipeline.                                             *)
(*                                                                         *)
(* One action is one handler invocation.  JavaScript runs a handler and    *)
(* the microtasks it schedules (the continuation of an await whose promise *)
(* the handler resolved) to completion before the next event or click is   *)
(* dispatched, and React applies the queued state updates in call order,   *)
(* so each action is atomic.                                               *)
(***************************************************************************)
EXTENDS Integers, Sequences, FiniteSets, TLC

VARIABLES
    socket,           \* useState(null), line 190: NULL or "socket"
    selectedStage,    \* line 185: NULL or a stage id
    logs,             \* line 186: sequence of [message, type]
    executionStates,  \* line 187: function stage id -> [progress, status]
    currentInput,     \* line 188: text of the input field, a sequence of characters
    waitingForInput,  \* line 189: NULL or a stage id
    isAutoRunning,    \* line 191
    runs,             \* the invocations of startFullPipeline that got past the guards;
                      \* ahead counts the executions of the awaited stage that were
                      \* outstanding when the loop sent its execute and have not ended
                      \* (-1 once the loop's own execution has ended)
    listeners,        \* handleComplete observers attached to 'execution_complete', in order
    backend,          \* backend: per stage, the phase of each execute not yet answered
    greeted,          \* backend: the connected event was emitted
    unacked,          \* backend: send_input messages not yet acknowledged
    emitted,          \* the messages the handler invoked last passed to socket.emit
    last,             \* the handler invoked last
    steps             \* the number of handlers invoked so far

vars == <<socket, selectedStage, logs, executionStates, currentInput,
          waitingForInput, isAutoRunning, runs, listeners, backend, greeted,
          unacked, emitted, last, steps>>

-----------------------------------------------------------------------------
(* Bounds of the model *)

NumPipeline == 3      \* stages taken from pipelineStages, at least 1
MaxSteps == 5         \* invocations of event handlers and operations in a behaviour

(* Constants of the program *)

ProgressStep == 5
ProgressCap == 95
ProgressDone == 100

NULL == "null"

-----------------------------------------------------------------------------
(* Stage catalog *)

mainStagesAll ==
    << [id |-> "create-profile", name |-> "Create Profile", file |-> "profile_generator.py"],
       [id |-> "channel-info",   name |-> "Channel Info",   file |-> "channel_info.py"],
       [id |-> "clean-base",     name |-> "Clean Base",     file |-> "clean_bases.py"] >>

pipelineStagesAll ==
    << [id |-> "get-scripts",       name |-> "Get Scripts",       file |-> "get_scripts.py"],
       [id |-> "srt-generator",     name |-> "SRT Generator",     file |-> "srt_generator.py"],
       [id |-> "image-suggestions", name |-> "Image Suggestions", file |-> "suggestion_generator.py"],
       [id |-> "image-generator",   name |-> "Image Generator",   file |-> "image_generator.py"],
       [id |-> "image-render",      name |-> "Image Render",      file |-> "make_and_render.py"] >>

Min(a, b) == IF a < b THEN a ELSE b

\* the handlers treat every main stage alike: the first one stands for the group
mainStages == SubSeq(mainStagesAll, 1, 1)

pipelineStages == SubSeq(pipelineStagesAll, 1, Min(NumPipeline, Len(pipelineStagesAll)))

Stages == mainStages \o pipelineStages

StageIds == { Stages[i].id : i \in 1..Len(Stages) }

-----------------------------------------------------------------------------
(* Inputs *)

\* data.status of execution_complete
Outcomes == {"success", "stopped", "failure"}

\* data.type of script_output
OutputTypes == {"info"}

\* texts typed into the input field, as sequences of characters
InputTexts == { <<>>, <<" ">>, <<" ", "k", " ">> }

-----------------------------------------------------------------------------
(* Pure helpers *)

IsSpace(c) == c \in {" ", "\t", "\n"}

RECURSIVE TrimStart(_)
TrimStart(t) ==
    IF t # <<>> /\ IsSpace(Head(t)) THEN TrimStart(Tail(t)) ELSE t

RECURSIVE TrimEnd(_)
TrimEnd(t) ==
    IF t # <<>> /\ IsSpace(t[Len(t)]) THEN TrimEnd(SubSeq(t, 1, Len(t) - 1)) ELSE t

\* faulty variant of Trim: the text is not trimmed
Trim_None(t) == t

\* String.prototype.trim
Trim(t) == TrimEnd(TrimStart(t))

\* the decimal text of a template literal ${n}, for the counts that occur
NumStr(n) == <<"0", "1", "2", "3", "4", "5", "6", "7", "8", "9">>[n + 1]

LogEntry(message, type) == [message |-> message, type |-> type]

\* faulty variant of addLog: the entry is put in front
addLog_Prepend(prev, message, type) == <<LogEntry(message, type)>> \o prev

\* addLog: setLogs(prev => [...prev, { message, type, timestamp }])
addLog(prev, message, type) == Append(prev, LogEntry(message, type))

\* faulty variant of SetState: the other entries are not copied
SetState_Only(prev, id, state) == [x \in {id} |-> state]

\* { ...prev, [id]: state }
SetState(prev, id, state) ==
    [x \in (DOMAIN prev) \cup {id} |-> IF x = id THEN state ELSE prev[x]]

\* prev[stageId] || { progress: 0, status: 'idle' }
CurrentState(prev, id) ==
    IF id \in DOMAIN prev THEN prev[id] ELSE [progress |-> 0, status |-> "idle"]

\* updateProgress(stageId, status)
updateProgress(prev, stageId, status) ==
    LET current == CurrentState(prev, stageId)
        newProgress == Min(current.progress + ProgressStep, ProgressCap)
    IN  SetState(prev, stageId, [progress |-> newProgress, status |-> status])

\* faulty variant of CompleteStatus: every outcome counts as completed
CompleteStatus_AlwaysCompleted(dataStatus) == "completed"

\* faulty variant of CompleteStatus: the stopped outcome is not told apart
CompleteStatus_NoStopped(dataStatus) ==
    IF dataStatus = "success" THEN "completed" ELSE "error"

\* execution_complete: data.status -> status
CompleteStatus(dataStatus) ==
    IF dataStatus = "success" THEN "completed"
    ELSE IF dataStatus = "stopped" THEN "stopped"
    ELSE "error"

\* execution_complete: the state stored for the stage
CompleteState(dataStatus) ==
    [progress |-> ProgressDone, status |-> CompleteStatus(dataStatus)]

\* execution_complete: the log entry
CompleteLog(dataStatus) ==
    LogEntry(<<"Execution ",
               IF dataStatus = "success" THEN "completed successfully" ELSE "failed",
               "!">>,
             IF dataStatus = "success" THEN "success" ELSE "error")

\* execution_error: the state stored for the stage
ErrorState == [progress |-> 0, status |-> "error"]

\* faulty variant of StoppedState: the progress of the completion handler
StoppedState_KeepsProgress == [progress |-> ProgressDone, status |-> "stopped"]

\* stopExecution, shutdownAll: the state stored for a stopped stage
StoppedState == [progress |-> 0, status |-> "stopped"]

\* faulty variant of RunningIds: every stage with an entry
RunningIds_All(states) == DOMAIN states

\* shutdownAll: the ids whose state is running
RunningIds(states) == { id \in DOMAIN states : states[id].status = "running" }

\* anyRunning (line 461)
anyRunning == RunningIds(executionStates) # {}

ExecuteMsg(stage) ==
    [event |-> "execute_stage", stage_id |-> stage.id, script_file |-> stage.file, input |-> <<>>]

StopMsg(id) ==
    [event |-> "stop_stage", stage_id |-> id, script_file |-> "", input |-> <<>>]

InputMsg(id, text) ==
    [event |-> "send_input", stage_id |-> id, script_file |-> "", input |-> text]

\* the orders in which runningIds.forEach may visit a set of ids: Object.entries
\* follows the insertion order of the keys, which the store here does not
\* record, so every order is allowed
Orders(S) ==
    { q \in [1..Cardinality(S) -> S] : \A i, j \in 1..Cardinality(S) : i # j => q[i] # q[j] }

-----------------------------------------------------------------------------
(* The state a handler works on, and its assignment to the next state *)

Cur ==
    [ socket |-> socket, selectedStage |-> selectedStage, logs |-> logs,
      executionStates |-> executionStates, currentInput |-> currentInput,
      waitingForInput |-> waitingForInput, isAutoRunning |-> isAutoRunning,
      runs |-> runs, listeners |-> listeners, backend |-> backend,
      greeted |-> greeted, unacked |-> unacked, emitted |-> <<>> ]

Assign(st, op, id, arg) ==
    /\ socket' = st.socket
    /\ selectedStage' = st.selectedStage
    /\ logs' = st.logs
    /\ executionStates' = st.executionStates
    /\ currentInput' = st.currentInput
    /\ waitingForInput' = st.waitingForInput
    /\ isAutoRunning' = st.isAutoRunning
    /\ runs' = st.runs
    /\ listeners' = st.listeners
    /\ backend' = st.backend
    /\ greeted' = st.greeted
    /\ unacked' = st.unacked
    /\ emitted' = st.emitted
    /\ last' = [op |-> op, stage_id |-> id, arg |-> arg]

\* a handler invocation, with argument arg, that ends in state st
CommitArg(st, op, id, arg) ==
    /\ steps < MaxSteps
    /\ steps' = steps + 1
    /\ Assign(st, op, id, arg)

Commit(st, op, id) == CommitArg(st, op, id, NULL)

\* socket.emit: the message goes out; the backend queues an execute and owes
\* an acknowledgement for a send_input
Emit(st, msg) ==
    [st EXCEPT !.emitted = Append(@, msg),
               !.backend = IF msg.event = "execute_stage"
                           THEN [@ EXCEPT ![msg.stage_id] = Append(@, "queued")]
                           ELSE @,
               !.unacked = IF msg.event = "send_input" THEN @ + 1 ELSE @]

Log(st, message, type) == [st EXCEPT !.logs = addLog(@, message, type)]

-----------------------------------------------------------------------------
(* executeStage, executeStageAndWait and the loop of startFullPipeline *)

\* faulty variant of NoSocket: the socket is not checked
NoSocket_Never(st) == FALSE

\* if (!socket)
NoSocket(st) == st.socket = NULL

\* faulty variant of AlreadyAutoRunning: the guard is not checked
AlreadyAutoRunning_Never(st) == FALSE

\* startFullPipeline: if (isAutoRunning) return
AlreadyAutoRunning(st) == st.isAutoRunning

\* faulty variant of Halts: only an outcome of failure halts the loop
Halts_OnlyFailure(status) == status = "failure"

\* startFullPipeline: if (result.status !== 'success')
Halts(status) == status # "success"

\* faulty variant of executeStage: the execute is emitted without a socket
executeStage_NoCheck(st, stage) ==
    Emit([st EXCEPT !.selectedStage = stage.id], ExecuteMsg(stage))

\* executeStage(stage)
executeStage(st, stage) ==
    IF NoSocket(st)
    THEN Log(st, <<"Not connected to backend">>, "error")
    ELSE Emit([st EXCEPT !.selectedStage = stage.id], ExecuteMsg(stage))

\* the stage a suspended loop awaits
AwaitedStage(run) == pipelineStages[run.idx]

\* the loop of run r, from the top of the iteration for runs[r].idx up to its await:
\* setSelectedStage, then executeStageAndWait attaches handleComplete and calls
\* executeStage.  The loop closes over the socket of the render that started it,
\* which line 310 found set, so the branch of lines 292-296 is never taken.
RunIterate(st, r) ==
    LET stage == AwaitedStage(st.runs[r])
        s1 == [st EXCEPT !.selectedStage = stage.id,
                         !.listeners = Append(@, r),
                         !.runs[r].pc = "awaiting",
                         !.runs[r].executed = Append(@, stage.id),
                         !.runs[r].ahead = Len(st.backend[stage.id])]
    IN  executeStage(s1, stage)

\* the loop of run r, resumed with result.status
RunResume(st, r, status) ==
    IF Halts(status)
    THEN [Log(st, <<"Pipeline halted at ", AwaitedStage(st.runs[r]).name>>, "error")
            EXCEPT !.isAutoRunning = FALSE, !.runs[r].pc = "halted"]
    ELSE IF st.runs[r].idx < Len(pipelineStages)
    THEN RunIterate([st EXCEPT !.runs[r].idx = @ + 1], r)
    ELSE [Log(st, <<"Pipeline completed successfully!">>, "success")
            EXCEPT !.isAutoRunning = FALSE, !.runs[r].pc = "completed"]

RECURSIVE ResumeAll(_, _, _)
ResumeAll(st, rs, status) ==
    IF rs = <<>> THEN st
    ELSE ResumeAll(RunResume(st, Head(rs), status), Tail(rs), status)

\* faulty variant of Matches: the stage of the event is not compared
Matches_Any(st, r, id) == TRUE

\* handleComplete of run r: if (data.stage_id !== stage.id) return
Matches(st, r, id) == AwaitedStage(st.runs[r]).id = id

\* the temporary observers called for an execution_complete of stage id: each
\* one that matches detaches itself and resolves; the loops resume afterwards,
\* in the order their promises were resolved
DispatchComplete(st, id, status) ==
    LET hit  == SelectSeq(st.listeners, LAMBDA r : Matches(st, r, id))
        rest == SelectSeq(st.listeners, LAMBDA r : ~Matches(st, r, id))
    IN  ResumeAll([st EXCEPT !.listeners = rest], hit, status)

-----------------------------------------------------------------------------
(* Initial state: the first render, before the effect of line 209 has run *)

Init ==
    /\ socket = NULL
    /\ selectedStage = NULL
    /\ logs = <<>>
    /\ executionStates = <<>>
    /\ currentInput = <<>>
    /\ waitingForInput = NULL
    /\ isAutoRunning = FALSE
    /\ runs = <<>>
    /\ listeners = <<>>
    /\ backend = [id \in StageIds |-> <<>>]
    /\ greeted = FALSE
    /\ unacked = 0
    /\ emitted = <<>>
    /\ last = [op |-> "init", stage_id |-> NULL, arg |-> NULL]
    /\ steps = 0

-----------------------------------------------------------------------------
(* The effect of line 209: the socket is created, the handlers are attached *)

Mount ==
    /\ socket = NULL
    /\ Assign([Cur EXCEPT !.socket = "socket"], "mount", NULL, NULL)
    /\ UNCHANGED steps

-----------------------------------------------------------------------------
(* Inbound events.  The backend greets the connection once.  It answers an *)
(* execute with execution_started, script_output events after that, and    *)
(* one execution_complete; request_input and execution_error can come in   *)
(* any phase of an unanswered execute.  It acknowledges each send_input    *)
(* with input_sent.                                                        *)

\* the number of executes for stage id not yet answered
Outstanding(id) == Len(backend[id])

\* an execution of stage id has started and not ended
Started(id) == \E i \in 1..Len(backend[id]) : backend[id][i] = "started"

Queued(id) == \E i \in 1..Len(backend[id]) : backend[id][i] = "queued"

\* the oldest queued execution starts
StartOne(q) ==
    LET i == CHOOSE j \in 1..Len(q) : q[j] = "queued" /\ \A k \in 1..(j - 1) : q[k] # "queued"
    IN  [q EXCEPT ![i] = "started"]

connected ==
    /\ socket # NULL
    /\ ~greeted
    /\ Commit([Log(Cur, <<"Connected to backend">>, "system") EXCEPT !.greeted = TRUE],
              "connected", NULL)

script_output(id, type) ==
    /\ socket # NULL
    /\ Started(id)
    /\ Commit([Log(Cur, <<"output">>, type)
                 EXCEPT !.executionStates = updateProgress(@, id, "running")],
              "script_output", id)

\* faulty variant of request_input: a pending request is not replaced
request_input_KeepsFirst(id) ==
    /\ socket # NULL
    /\ Outstanding(id) > 0
    /\ Commit([Log(Cur, <<"prompt">>, "input")
                 EXCEPT !.waitingForInput = IF @ = NULL THEN id ELSE @],
              "request_input", id)

request_input(id) ==
    /\ socket # NULL
    /\ Outstanding(id) > 0
    /\ Commit([Log(Cur, <<"prompt">>, "input") EXCEPT !.waitingForInput = id],
              "request_input", id)

execution_started(id) ==
    /\ socket # NULL
    /\ Queued(id)
    /\ Commit([Log(Cur, <<"Starting execution of ", id, "...">>, "system")
                 EXCEPT !.backend[id] = StartOne(@),
                        !.executionStates =
                            SetState(@, id, [progress |-> 0, status |-> "running"])],
              "execution_started", id)

execution_complete(id, status) ==
    /\ socket # NULL
    /\ Outstanding(id) > 0
    /\ Head(backend[id]) = "started"
    /\ LET s1 == [Cur EXCEPT !.backend[id] = Tail(@),
                             !.executionStates = SetState(@, id, CompleteState(status)),
                             !.logs = Append(@, CompleteLog(status))]
       IN  CommitArg(DispatchComplete(s1, id, status), "execution_complete", id, status)

\* the oldest execution of stage id has ended without resuming a loop: one
\* execution fewer is ahead of the executes of the loops that await id
EndedFor(rs, id) ==
    [r \in 1..Len(rs) |->
        IF rs[r].pc = "awaiting" /\ AwaitedStage(rs[r]).id = id /\ rs[r].ahead >= 0
        THEN [rs[r] EXCEPT !.ahead = @ - 1]
        ELSE rs[r]]

execution_error(id) ==
    /\ socket # NULL
    /\ Outstanding(id) > 0
    /\ Commit([Log(Cur, <<"Error: ", "error">>, "error")
                 EXCEPT !.backend[id] = Tail(@),
                        !.executionStates = SetState(@, id, ErrorState),
                        !.runs = EndedFor(@, id)],
              "execution_error", id)

input_sent ==
    /\ socket # NULL
    /\ unacked > 0
    /\ Commit([Log(Cur, <<"> ", "k">>, "user") EXCEPT !.unacked = @ - 1],
              "input_sent", NULL)

-----------------------------------------------------------------------------
(* Operations *)

ExecuteStage(stage) ==
    /\ stage.id \in StageIds
    /\ Commit(executeStage(Cur, stage), "executeStage", stage.id)

startFullPipeline ==
    IF NoSocket(Cur)
    THEN Commit(Log(Cur, <<"Not connected to backend">>, "error"), "startFullPipeline", NULL)
    ELSE IF AlreadyAutoRunning(Cur)
    THEN Commit(Cur, "startFullPipeline", NULL)
    ELSE LET r  == Len(runs) + 1
             s1 == [Log(Cur, <<"Starting full pipeline...">>, "system")
                      EXCEPT !.isAutoRunning = TRUE,
                             !.runs = Append(@, [idx |-> 1, pc |-> "awaiting",
                                                 executed |-> <<>>, ahead |-> 0])]
         IN  Commit(RunIterate(s1, r), "startFullPipeline", NULL)

shutdownAll ==
    IF NoSocket(Cur)
    THEN Commit(Cur, "shutdownAll", NULL)
    ELSE LET runningIds == RunningIds(executionStates)
         IN  IF runningIds = {}
             THEN Commit(Log(Cur, <<"No running stages to stop.">>, "system"),
                         "shutdownAll", NULL)
             ELSE \E order \in Orders(runningIds) :
                    Commit([Log(Cur, <<"Shutdown requested for ",
                                       NumStr(Cardinality(runningIds)),
                                       " stage(s).">>, "system")
                              EXCEPT !.emitted = [i \in 1..Cardinality(runningIds) |->
                                                    StopMsg(order[i])],
                                     !.waitingForInput = NULL,
                                     !.isAutoRunning = FALSE,
                                     !.executionStates =
                                         [x \in DOMAIN @ |->
                                            IF x \in runningIds THEN StoppedState ELSE @[x]]],
                           "shutdownAll", NULL)

onChangeInput(text) ==
    /\ text # currentInput
    /\ Commit([Cur EXCEPT !.currentInput = text], "onChangeInput", NULL)

handleInputSubmit ==
    IF Trim(currentInput) # <<>> /\ ~NoSocket(Cur) /\ waitingForInput # NULL
    THEN Commit([Emit(Cur, InputMsg(waitingForInput, Trim(currentInput)))
                   EXCEPT !.currentInput = <<>>, !.waitingForInput = NULL],
                "handleInputSubmit", NULL)
    ELSE Commit(Cur, "handleInputSubmit", NULL)

clearLogs ==
    /\ Commit([Cur EXCEPT !.logs = <<>>, !.executionStates = <<>>], "clearLogs", NULL)

stopExecution ==
    IF NoSocket(Cur) \/ selectedStage = NULL
    THEN Commit(Cur, "stopExecution", NULL)
    ELSE Commit([Emit(Log(Cur, <<"Stop requested...">>, "system"), StopMsg(selectedStage))
                   EXCEPT !.logs = <<>>,
                          !.waitingForInput = NULL,
                          !.executionStates = SetState(@, selectedStage, StoppedState)],
                "stopExecution", selectedStage)

-----------------------------------------------------------------------------

Next ==
    \/ Mount
    \/ connected
    \/ \E id \in StageIds, type \in OutputTypes : script_output(id, type)
    \/ \E id \in StageIds : request_input(id)
    \/ \E id \in StageIds : execution_started(id)
    \/ \E id \in StageIds, status \in Outcomes : execution_complete(id, status)
    \/ \E id \in StageIds : execution_error(id)
    \/ input_sent
    \/ \E i \in 1..Len(Stages) : ExecuteStage(Stages[i])
    \/ startFullPipeline
    \/ shutdownAll
    \/ \E text \in InputTexts : onChangeInput(text)
    \/ handleInputSubmit
    \/ clearLogs
    \/ stopExecution

Spec == Init /\ [][Next]_vars

-----------------------------------------------------------------------------
(* A full-pipeline run followed to its end.  SpecRun starts from the states *)
(* the program is in after mount, startFullPipeline and the success of the  *)
(* first k pipeline stages, and goes on with the events and operations that *)
(* bear on a run.                                                           *)

\* the state after the effect of line 209
Mounted ==
    [ socket |-> "socket", selectedStage |-> NULL, logs |-> <<>>,
      executionStates |-> <<>>, currentInput |-> <<>>, waitingForInput |-> NULL,
      isAutoRunning |-> FALSE, runs |-> <<>>, listeners |-> <<>>,
      backend |-> [id \in StageIds |-> <<>>], greeted |-> FALSE, unacked |-> 0,
      emitted |-> <<>> ]

\* startFullPipeline in state st, past its guards
AfterStart(st) ==
    RunIterate([Log([st EXCEPT !.emitted = <<>>], <<"Starting full pipeline...">>, "system")
                  EXCEPT !.isAutoRunning = TRUE,
                         !.runs = Append(@, [idx |-> 1, pc |-> "awaiting",
                                             executed |-> <<>>, ahead |-> 0])],
               Len(st.runs) + 1)

\* the execution_started handler for stage id in state st
AfterStarted(st, id) ==
    [Log([st EXCEPT !.emitted = <<>>], <<"Starting execution of ", id, "...">>, "system")
       EXCEPT !.backend[id] = StartOne(@),
              !.executionStates = SetState(@, id, [progress |-> 0, status |-> "running"])]

\* the execution_complete handler for stage id in state st, and the loops it resumes
AfterComplete(st, id, status) ==
    DispatchComplete([st EXCEPT !.emitted = <<>>,
                                !.backend[id] = Tail(@),
                                !.executionStates = SetState(@, id, CompleteState(status)),
                                !.logs = Append(@, CompleteLog(status))],
                     id, status)

\* the state after mount, startFullPipeline and the success of the first k stages
RECURSIVE RunPrefix(_)
RunPrefix(k) ==
    IF k = 0 THEN AfterStart(Mounted)
    ELSE LET id == pipelineStages[k].id
         IN  AfterComplete(AfterStarted(RunPrefix(k - 1), id), id, "success")

InitRun ==
    \E k \in 0..(Len(pipelineStages) - 1) :
        LET st == RunPrefix(k)
        IN  /\ socket = st.socket
            /\ selectedStage = st.selectedStage
            /\ logs = st.logs
            /\ executionStates = st.executionStates
            /\ currentInput = st.currentInput
            /\ waitingForInput = st.waitingForInput
            /\ isAutoRunning = st.isAutoRunning
            /\ runs = st.runs
            /\ listeners = st.listeners
            /\ backend = st.backend
            /\ greeted = st.greeted
            /\ unacked = st.unacked
            /\ emitted = st.emitted
            /\ last = IF k = 0
                      THEN [op |-> "startFullPipeline", stage_id |-> NULL, arg |-> NULL]
                      ELSE [op |-> "execution_complete", stage_id |-> pipelineStages[k].id,
                            arg |-> "success"]
            /\ steps = 0

NextRun ==
    \/ \E id \in StageIds : execution_started(id)
    \/ \E id \in StageIds, status \in Outcomes : execution_complete(id, status)
    \/ \E id \in StageIds : execution_error(id)
    \/ \E i \in 1..Len(Stages) : ExecuteStage(Stages[i])
    \/ startFullPipeline
    \/ shutdownAll
    \/ stopExecution

SpecRun == InitRun /\ [][NextRun]_vars

-----------------------------------------------------------------------------
(* The claims.  Their vocabulary is defined here, apart from the model's.  *)

\* the stages recorded as running
RunningSet == { id \in DOMAIN executionStates : executionStates[id].status = "running" }

\* step: the handler op is invoked
Invoked(op) == last'.op = op

\* step: the stage-carrying handler op is invoked for stage id
InvokedFor(op, id) == last'.op = op /\ last'.stage_id = id

\* step: the execution state of every stage but id is as before
OthersUnchanged(id) ==
    /\ (DOMAIN executionStates') \ {id} = (DOMAIN executionStates) \ {id}
    /\ \A x \in (DOMAIN executionStates) \ {id} : executionStates'[x] = executionStates[x]

\* C1: every entry of the execution state store has progress in 0..100,
\* progress = 100 iff status = completed, and progress = 0 whenever status is
\* idle, stopped or error.
C1_ProgressInvariant ==
    \A id \in DOMAIN executionStates :
        LET e == executionStates[id]
        IN  /\ e.progress \in 0..100
            /\ (e.progress = 100) <=> (e.status = "completed")
            /\ e.status \in {"idle", "stopped", "error"} => e.progress = 0

\* C2: a terminal event for stage s leaves s completed/100 on success,
\* stopped/0 on stopped, error/0 on any other outcome and on execution_error.
C2_TerminalState(status) ==
    IF status = "success" THEN [progress |-> 100, status |-> "completed"]
    ELSE IF status = "stopped" THEN [progress |-> 0, status |-> "stopped"]
    ELSE [progress |-> 0, status |-> "error"]

\* C2: processing a terminal event for stage s sets s's execution state to
\* the state mapped from the event (completed/100, stopped/0 or error/0).
C2_TerminalEventSetsState ==
    [][ /\ \A id \in StageIds, status \in Outcomes :
              execution_complete(id, status) =>
                  /\ id \in DOMAIN executionStates'
                  /\ executionStates'[id] = C2_TerminalState(status)
        /\ \A id \in StageIds :
              execution_error(id) =>
                  /\ id \in DOMAIN executionStates'
                  /\ executionStates'[id] = [progress |-> 0, status |-> "error"]
      ]_vars

\* C3: the entry logged when a run halts at the k-th pipeline stage
C3_HaltedEntry(k) ==
    [message |-> <<"Pipeline halted at ", pipelineStagesAll[k].name>>, type |-> "error"]

\* C3: when the outcome awaited by a full-pipeline run for stage k is not
\* success, the run halts there: it has sent executes for the stages up to k
\* only and never sends another, the step sends no execute and changes the
\* execution state of no stage but k (later stages keep their status, earlier
\* completed ones stay completed), and a 'halted at <stage k>' error entry is
\* logged.
C3_HaltOnFailure ==
    [][ \A r \in 1..Len(runs) :
          LET k == runs[r].idx
              id == pipelineStagesAll[k].id
          IN  /\ ( /\ runs[r].pc = "awaiting"
                   /\ InvokedFor("execution_complete", id)
                   /\ last'.arg # "success" )
                 => /\ runs'[r].pc = "halted"
                    /\ runs'[r].idx = k
                    /\ runs'[r].executed = [i \in 1..k |-> pipelineStagesAll[i].id]
                    /\ \A i \in 1..Len(emitted') : emitted'[i].event # "execute_stage"
                    /\ \E i \in (Len(logs) + 1)..Len(logs') : logs'[i] = C3_HaltedEntry(k)
                    /\ OthersUnchanged(id)
              /\ runs[r].pc = "halted" => runs'[r] = runs[r]
      ]_vars

\* C3 witness: a run halted at the second stage after the first completed,
\* and the third stage was never started
C3_Witness ==
    \E r \in 1..Len(runs) :
        /\ runs[r].pc = "halted"
        /\ runs[r].idx = 2
        /\ last.op = "execution_complete"
        /\ pipelineStagesAll[1].id \in DOMAIN executionStates
        /\ executionStates[pipelineStagesAll[1].id].status = "completed"
        /\ executionStates[pipelineStagesAll[2].id].status = "error"
        /\ Len(pipelineStages) >= 3
        /\ pipelineStagesAll[3].id \notin DOMAIN executionStates

\* C4: startFullPipeline invoked while isAutoRunning is true sends no message
\* and leaves the execution state store, the log, the pending-input slot, the
\* selected stage and isAutoRunning unchanged, and starts no loop.
C4_RejectedRunIsNoOp ==
    [][ (Invoked("startFullPipeline") /\ isAutoRunning)
          => /\ emitted' = <<>>
             /\ UNCHANGED <<executionStates, logs, waitingForInput, selectedStage,
                            isAutoRunning, runs, listeners>>
      ]_vars

\* C4 witness: startFullPipeline was invoked during a run and sent nothing
C4_Witness ==
    /\ last.op = "startFullPipeline"
    /\ isAutoRunning
    /\ emitted = <<>>
    /\ Len(runs) = 1

\* C5: a full-pipeline run exits once the backend has answered every execute
\* with a terminal event (execution_complete or execution_error): in a state
\* where no execute is unanswered, no run is suspended and isAutoRunning is
\* false.
C5_RunExitsWhenAnswered ==
    (\A id \in StageIds : backend[id] = <<>>)
        => /\ ~isAutoRunning
           /\ \A r \in 1..Len(runs) : runs[r].pc # "awaiting"

\* C6: the decimal text of a count
C6_Count(n) ==
    CASE n = 1 -> "1" [] n = 2 -> "2" [] n = 3 -> "3" [] n = 4 -> "4"
      [] n = 5 -> "5" [] n = 6 -> "6" [] n = 7 -> "7" [] n = 8 -> "8"

\* C6: shutdownAll with a non-empty set R of running stages sends exactly one
\* stop per stage of R and nothing else, sets the stages of R to stopped/0,
\* leaves the other stages' execution state unchanged, clears the
\* pending-input slot and isAutoRunning, and appends one entry stating |R|.
C6_ShutdownStopsRunning ==
    [][ (Invoked("shutdownAll") /\ RunningSet # {})
          => LET R == RunningSet
             IN  /\ Len(emitted') = Cardinality(R)
                 /\ \A id \in R : \E i \in 1..Len(emitted') :
                        emitted'[i] = [event |-> "stop_stage", stage_id |-> id,
                                       script_file |-> "", input |-> <<>>]
                 /\ DOMAIN executionStates' = DOMAIN executionStates
                 /\ \A id \in DOMAIN executionStates :
                        executionStates'[id] =
                            IF id \in R THEN [progress |-> 0, status |-> "stopped"]
                            ELSE executionStates[id]
                 /\ waitingForInput' = NULL
                 /\ isAutoRunning' = FALSE
                 /\ logs' = Append(logs,
                                   [message |-> <<"Shutdown requested for ",
                                                  C6_Count(Cardinality(R)), " stage(s).">>,
                                    type |-> "system"])
      ]_vars

\* C6 witness: shutdownAll stopped two running stages
C6_Witness ==
    /\ last.op = "shutdownAll"
    /\ Len(emitted) = 2
    /\ emitted[1].stage_id # emitted[2].stage_id
    /\ \A i \in 1..2 : executionStates[emitted[i].stage_id].status = "stopped"

\* C7: the entry logged when there is nothing to stop
C7_NoRunningEntry == [message |-> <<"No running stages to stop.">>, type |-> "system"]

\* C7 as claimed: shutdownAll with no running stage, in any state (also before
\* the socket exists), appends exactly one 'no running stages' entry, sends
\* nothing and leaves the store, the pending-input slot and isAutoRunning
\* unchanged.
C7_NoRunningAnyState ==
    [][ (Invoked("shutdownAll") /\ RunningSet = {})
          => /\ logs' = Append(logs, C7_NoRunningEntry)
             /\ emitted' = <<>>
             /\ UNCHANGED <<executionStates, waitingForInput, isAutoRunning>>
      ]_vars

\* C7 as amended: shutdownAll with no running stage sends nothing and leaves
\* the store, the pending-input slot and isAutoRunning unchanged; it appends
\* exactly one 'no running stages' entry when the socket exists and appends
\* nothing before the socket exists.
C7_NoRunningWithSocket ==
    [][ (Invoked("shutdownAll") /\ RunningSet = {})
          => /\ logs' = IF socket # NULL THEN Append(logs, C7_NoRunningEntry) ELSE logs
             /\ emitted' = <<>>
             /\ UNCHANGED <<executionStates, waitingForInput, isAutoRunning>>
      ]_vars

\* C7 witness: shutdownAll found an entry that is not running and logged the notice
C7_Witness ==
    /\ last.op = "shutdownAll"
    /\ socket # NULL
    /\ emitted = <<>>
    /\ executionStates # <<>>
    /\ logs # <<>>
    /\ logs[Len(logs)] = C7_NoRunningEntry

\* C8: stopExecution with a selected stage s sends exactly one stop for s and
\* leaves the log empty, the pending-input slot empty and s stopped/0, the
\* other stages' execution state unchanged; with no selected stage it sends
\* nothing and changes nothing.
C8_StopSelected ==
    [][ Invoked("stopExecution")
          => IF selectedStage # NULL
             THEN /\ emitted' = << [event |-> "stop_stage", stage_id |-> selectedStage,
                                    script_file |-> "", input |-> <<>>] >>
                  /\ logs' = <<>>
                  /\ waitingForInput' = NULL
                  /\ selectedStage \in DOMAIN executionStates'
                  /\ executionStates'[selectedStage] = [progress |-> 0, status |-> "stopped"]
                  /\ OthersUnchanged(selectedStage)
             ELSE /\ emitted' = <<>>
                  /\ UNCHANGED <<socket, selectedStage, logs, executionStates, currentInput,
                                 waitingForInput, isAutoRunning, runs, listeners>>
      ]_vars

\* C8 witness: the selected stage was stopped locally while the backend has
\* not answered its execute
C8_Witness ==
    /\ last.op = "stopExecution"
    /\ selectedStage # NULL
    /\ Len(emitted) = 1
    /\ logs = <<>>
    /\ backend[selectedStage] # <<>>
    /\ executionStates[selectedStage].status = "stopped"

\* C9: a text that is empty or only whitespace
C9_Blank(text) == \A i \in 1..Len(text) : text[i] \in {" ", "\t", "\n"}

\* C9: handleInputSubmit with no pending input request, or with an empty or
\* whitespace-only text, sends nothing, logs nothing and leaves the
\* pending-input slot as it is.
C9_IgnoredSubmit ==
    [][ (Invoked("handleInputSubmit") /\ (waitingForInput = NULL \/ C9_Blank(currentInput)))
          => /\ emitted' = <<>>
             /\ logs' = logs
             /\ waitingForInput' = waitingForInput
      ]_vars

\* C9 witness: a whitespace-only text was submitted to an open request
C9_Witness ==
    /\ last.op = "handleInputSubmit"
    /\ waitingForInput # NULL
    /\ currentInput = <<" ">>
    /\ emitted = <<>>

C11_Progress(states, id) == IF id \in DOMAIN states THEN states[id].progress ELSE 0

\* C11: execution-started leaves the stage at progress 0 and every output
\* event after it adds 5 to the stage's progress, capped at 95 (so n
\* consecutive outputs after execution-started give min(5*n, 95)); an output
\* event never leaves progress above 95; and progress becomes 100 only by a
\* terminal event whose outcome is success.
C11_OutputProgress ==
    [][ /\ \A id \in StageIds :
              InvokedFor("execution_started", id) =>
                  C11_Progress(executionStates', id) = 0
        /\ \A id \in StageIds :
              InvokedFor("script_output", id) =>
                  LET p == C11_Progress(executionStates, id)
                  IN  /\ id \in DOMAIN executionStates'
                      /\ executionStates'[id].progress = (IF p + 5 < 95 THEN p + 5 ELSE 95)
                      /\ executionStates'[id].progress <= 95
        /\ \A id \in DOMAIN executionStates' :
              ( /\ executionStates'[id].progress = 100
                /\ C11_Progress(executionStates, id) # 100 )
                 => /\ InvokedFor("execution_complete", id)
                    /\ last'.arg = "success"
      ]_vars

\* C12: the inbound events
C12_Events ==
    {"connected", "script_output", "request_input", "execution_started",
     "execution_complete", "execution_error", "input_sent"}

\* C12: the type of the entry an inbound event appends
C12_EventType(op, arg) ==
    CASE op = "connected" -> "system"
      [] op = "script_output" -> "info"
      [] op = "request_input" -> "input"
      [] op = "execution_started" -> "system"
      [] op = "execution_complete" -> (IF arg = "success" THEN "success" ELSE "error")
      [] op = "execution_error" -> "error"
      [] op = "input_sent" -> "user"

\* C12: an entry written by a full-pipeline loop when it leaves
C12_LoopEntry(e) ==
    e.message[1] \in {"Pipeline halted at ", "Pipeline completed successfully!"}

\* C12: every inbound event appends exactly one entry, of the event's type,
\* at the end of the log (followed only by the entries of the full-pipeline
\* loops that the event resumes, none when no loop awaits the event's stage),
\* so the log lists the events in arrival order whatever stage each belongs
\* to; and no step other than clear and stopStage reorders, modifies or
\* removes an existing entry.
C12_LogOrder ==
    [][ /\ last'.op \in C12_Events =>
              /\ Len(logs') >= Len(logs) + 1
              /\ SubSeq(logs', 1, Len(logs)) = logs
              /\ logs'[Len(logs) + 1].type = C12_EventType(last'.op, last'.arg)
              /\ Invoked("execution_started") =>
                     logs'[Len(logs) + 1].message =
                         <<"Starting execution of ", last'.stage_id, "...">>
              /\ \A i \in (Len(logs) + 2)..Len(logs') : C12_LoopEntry(logs'[i])
              /\ ( \/ last'.op # "execution_complete"
                   \/ \A r \in 1..Len(runs) :
                          \/ runs[r].pc # "awaiting"
                          \/ pipelineStagesAll[runs[r].idx].id # last'.stage_id )
                   => Len(logs') = Len(logs) + 1
        /\ last'.op \notin {"clearLogs", "stopExecution"} =>
              /\ Len(logs') >= Len(logs)
              /\ SubSeq(logs', 1, Len(logs)) = logs
      ]_vars

\* C12 witness: the events of two stages were logged in their arrival order:
\* both executions started, then an output arrived
C12_Witness ==
    /\ last.op = "script_output"
    /\ Len(logs) = 3
    /\ \E a, b \in StageIds :
          /\ a # b
          /\ logs[1] = [message |-> <<"Starting execution of ", a, "...">>, type |-> "system"]
          /\ logs[2] = [message |-> <<"Starting execution of ", b, "...">>, type |-> "system"]
    /\ logs[3].type = "info"

\* C13: the temporary observer of run r is attached
C13_Attached(ls, r) == \E i \in 1..Len(ls) : ls[i] = r

\* C13: the stage the call of executeStageAndWait made by run r is for
C13_StageOf(r) == pipelineStagesAll[runs[r].idx].id

\* C13: a terminal event for stage s (execution_complete or execution_error)
\* detaches every temporary observer attached for s and resolves its await
\* once (the loop leaves or goes on to the next stage); the observers
\* attached for other stages stay attached and their loops stay where they
\* are; no observer is attached twice; and when no loop is awaiting, no
\* temporary observer is attached.
C13_ObserverDetaches ==
    [][ /\ \A id \in StageIds :
              (InvokedFor("execution_complete", id) \/ InvokedFor("execution_error", id)) =>
                  \A r \in 1..Len(runs) :
                      C13_Attached(listeners, r) =>
                          IF C13_StageOf(r) = id
                          THEN /\ C13_Attached(listeners', r) => runs'[r].idx = runs[r].idx + 1
                               /\ \/ runs'[r].pc \in {"halted", "completed"}
                                  \/ runs'[r].idx = runs[r].idx + 1
                          ELSE /\ C13_Attached(listeners', r)
                               /\ runs'[r] = runs[r]
        /\ \A i, j \in 1..Len(listeners') : i # j => listeners'[i] # listeners'[j]
        /\ (\A r \in 1..Len(runs') : runs'[r].pc # "awaiting") => listeners' = <<>>
      ]_vars

\* C14: the status of stage id, idle when it has no entry
C14_Status(states, id) == IF id \in DOMAIN states THEN states[id].status ELSE "idle"

C14_Terminal == {"completed", "error", "stopped"}

\* C14: the status a terminal event maps to
C14_Mapped(op, arg) ==
    IF op = "execution_error" THEN "error"
    ELSE IF arg = "success" THEN "completed"
    ELSE IF arg = "stopped" THEN "stopped"
    ELSE "error"

\* C14 as claimed: every change of a stage's status is idle -> running,
\* running -> completed, error or stopped, or a terminal status -> running;
\* no step takes a stage from idle to a terminal status or from one
\* terminal status to another.
C14_StateMachine ==
    [][ \A id \in StageIds :
          LET a == C14_Status(executionStates, id)
              b == C14_Status(executionStates', id)
          IN  \/ a = b
              \/ a = "idle" /\ b = "running"
              \/ a = "running" /\ b \in C14_Terminal
              \/ a \in C14_Terminal /\ b = "running"
      ]_vars

\* C14 as amended: every change of a stage's status is one of: to running
\* by an execution-started or output event for the stage; to the status
\* mapped from a terminal event for the stage, whatever the status before
\* (last write wins); to stopped by stopStage on the selected stage, whatever
\* the status before, or by shutdownAll from running; to no entry by clear.
C14_StatusChanges ==
    [][ \A id \in StageIds :
          LET a == C14_Status(executionStates, id)
              b == C14_Status(executionStates', id)
          IN  \/ a = b
              \/ /\ b = "running"
                 /\ InvokedFor("execution_started", id) \/ InvokedFor("script_output", id)
              \/ /\ InvokedFor("execution_complete", id) \/ InvokedFor("execution_error", id)
                 /\ b = C14_Mapped(last'.op, last'.arg)
              \/ /\ Invoked("stopExecution")
                 /\ selectedStage = id
                 /\ b = "stopped"
              \/ /\ Invoked("shutdownAll")
                 /\ a = "running"
                 /\ b = "stopped"
              \/ /\ Invoked("clearLogs")
                 /\ b = "idle"
                 /\ id \notin DOMAIN executionStates'
      ]_vars

\* C14 witness: a success outcome arrived for a stage that shutdownAll had
\* marked stopped, and the stage is completed
C14_Witness ==
    /\ last.op = "execution_complete"
    /\ last.arg = "success"
    /\ executionStates[last.stage_id].status = "completed"
    /\ Len(logs) >= 2
    /\ logs[Len(logs) - 1] =
          [message |-> <<"Shutdown requested for ", "1", " stage(s).">>, type |-> "system"]
    /\ runs = <<>>
    /\ \A id \in DOMAIN executionStates : id = last.stage_id

\* C15: the ids of the first k pipeline stages, in catalog order
C15_Catalog(k) == [i \in 1..k |-> pipelineStagesAll[i].id]

\* C15: the execute message for the k-th pipeline stage
C15_ExecuteFor(k) ==
    [event |-> "execute_stage", stage_id |-> pipelineStagesAll[k].id,
     script_file |-> pipelineStagesAll[k].file, input |-> <<>>]

\* C15: the execute messages among msgs
C15_Executes(msgs) == SelectSeq(msgs, LAMBDA m : m.event = "execute_stage")

\* C15: the runs that send an execute in this step
C15_Sending ==
    { r \in 1..Len(runs') : r > Len(runs) \/ runs'[r].executed # runs[r].executed }

\* C15: a full-pipeline run sends executes for pipeline stages only, in
\* catalog order, one per stage: the first when startFullPipeline starts the
\* run, the one for stage k+1 in the step that processes a success outcome
\* for stage k while the run awaits stage k; no step sends another execute
\* on behalf of a run; and 'Pipeline completed successfully!' is logged only
\* by a run that has sent every stage's execute and receives the success of
\* the last stage.
C15_PipelineOrder ==
    [][ /\ \A r \in 1..Len(runs') :
              /\ runs'[r].executed = C15_Catalog(Len(runs'[r].executed))
              /\ r > Len(runs) =>
                    /\ Invoked("startFullPipeline")
                    /\ runs'[r].executed = C15_Catalog(1)
                    /\ emitted' = <<C15_ExecuteFor(1)>>
              /\ (r <= Len(runs) /\ runs'[r].executed # runs[r].executed) =>
                    LET k == Len(runs[r].executed)
                    IN  /\ runs[r].pc = "awaiting"
                        /\ runs[r].idx = k
                        /\ runs'[r].executed = C15_Catalog(k + 1)
                        /\ InvokedFor("execution_complete", pipelineStagesAll[k].id)
                        /\ last'.arg = "success"
                        /\ \E i \in 1..Len(emitted') : emitted'[i] = C15_ExecuteFor(k + 1)
              /\ runs'[r].pc = "completed" =>
                    runs'[r].executed = C15_Catalog(Len(pipelineStages))
        /\ last'.op # "executeStage" =>
              Len(C15_Executes(emitted')) = Cardinality(C15_Sending)
        /\ (\E i \in (Len(logs) + 1)..Len(logs') :
                logs'[i].message = <<"Pipeline completed successfully!">>) =>
              /\ InvokedFor("execution_complete", pipelineStagesAll[Len(pipelineStages)].id)
              /\ last'.arg = "success"
              /\ \E r \in 1..Len(runs) :
                    /\ runs[r].pc = "awaiting"
                    /\ runs[r].executed = C15_Catalog(Len(pipelineStages))
                    /\ runs'[r].pc = "completed"
      ]_vars

\* C15 witness: a run went through every pipeline stage and logged its success
C15_Witness ==
    /\ last.op = "execution_complete"
    /\ last.arg = "success"
    /\ ~isAutoRunning
    /\ \E r \in 1..Len(runs) :
          /\ runs[r].pc = "completed"
          /\ runs[r].executed = C15_Catalog(Len(pipelineStages))
    /\ logs[Len(logs)] = [message |-> <<"Pipeline completed successfully!">>, type |-> "success"]
    /\ \A k \in 1..Len(pipelineStages) :
          /\ pipelineStagesAll[k].id \in DOMAIN executionStates
          /\ executionStates[pipelineStagesAll[k].id].status = "completed"

\* C16: t is text without its leading and trailing whitespace
C16_IsTrimOf(t, text) ==
    /\ t # <<>>
    /\ t[1] \notin {" ", "\t", "\n"}
    /\ t[Len(t)] \notin {" ", "\t", "\n"}
    /\ \E i \in 0..Len(text) : \E j \in i..Len(text) :
          /\ SubSeq(text, i + 1, j) = t
          /\ \A n \in (1..i) \cup ((j + 1)..Len(text)) : text[n] \in {" ", "\t", "\n"}

\* C16: the pending-input slot holds the stage of the most recent
\* input-requested event: the event for stage t sets the slot to t whatever
\* it held, and nothing else puts a stage into the slot.  submitInput with a
\* pending request and a text that is not blank sends exactly one
\* submit-input message, addressed to the slot's stage and carrying the
\* trimmed text, and empties the slot; a submitInput right after another
\* sends nothing.
C16_SingleSlot ==
    [][ /\ \A t \in StageIds : InvokedFor("request_input", t) => waitingForInput' = t
        /\ (waitingForInput' # waitingForInput /\ waitingForInput' # NULL)
              => InvokedFor("request_input", waitingForInput')
        /\ ( /\ Invoked("handleInputSubmit")
             /\ waitingForInput # NULL
             /\ \E n \in 1..Len(currentInput) : currentInput[n] \notin {" ", "\t", "\n"} )
              => /\ Len(emitted') = 1
                 /\ emitted'[1].event = "send_input"
                 /\ emitted'[1].stage_id = waitingForInput
                 /\ C16_IsTrimOf(emitted'[1].input, currentInput)
                 /\ waitingForInput' = NULL
        /\ (Invoked("handleInputSubmit") /\ last.op = "handleInputSubmit")
              => emitted' = <<>>
      ]_vars

\* C16 witness: a text was submitted to the pending request and sent, and a
\* second submit was made that sent nothing
C16_Witness ==
    /\ last.op = "handleInputSubmit"
    /\ emitted = <<>>
    /\ unacked = 1
    /\ waitingForInput = NULL
    /\ currentInput = <<>>
    /\ logs = << [message |-> <<"prompt">>, type |-> "input"] >>

\* C17: the inbound events that carry a stage id and write the store
C17_StageEvents ==
    {"script_output", "execution_started", "execution_complete", "execution_error"}

\* C17: processing an output, execution-started, execution-finished or
\* execution-error event for stage s leaves every other stage's entry in the
\* execution state store (status and progress, present or absent) as it was.
C17_StageKeyed ==
    [][ \A s \in StageIds :
          (last'.op \in C17_StageEvents /\ last'.stage_id = s) =>
              \A t \in StageIds \ {s} :
                  /\ t \in DOMAIN executionStates' <=> t \in DOMAIN executionStates
                  /\ t \in DOMAIN executionStates =>
                        /\ executionStates'[t].status = executionStates[t].status
                        /\ executionStates'[t].progress = executionStates[t].progress
      ]_vars

\* C17 witness: a terminal event for one stage was processed while another
\* stage is running with progress of its own
C17_Witness ==
    /\ last.op = "execution_complete"
    /\ \E t \in DOMAIN executionStates :
          /\ t # last.stage_id
          /\ executionStates[t] = [progress |-> 0, status |-> "running"]
    /\ executionStates[last.stage_id].status = "completed"

\* C18: the status a terminal event maps to
C18_Mapped(op, arg) ==
    CASE op = "execution_error" -> "error"
      [] op = "execution_complete" /\ arg = "success" -> "completed"
      [] op = "execution_complete" /\ arg = "stopped" -> "stopped"
      [] op = "execution_complete" /\ arg = "failure" -> "error"

\* C18: the log entry a terminal event appends
C18_Entry(op, arg) ==
    CASE op = "execution_error" -> [message |-> <<"Error: ", "error">>, type |-> "error"]
      [] op = "execution_complete" /\ arg = "success" ->
            [message |-> <<"Execution ", "completed successfully", "!">>, type |-> "success"]
      [] op = "execution_complete" /\ arg # "success" ->
            [message |-> <<"Execution ", "failed", "!">>, type |-> "error"]

\* C18: a terminal event for stage s is processed the same way whatever
\* status s has, also stopped by stopStage or shutdownAll: the status of s
\* becomes the one mapped from the event and the event's usual log entry is
\* appended; and the same terminal event processed again right after leaves
\* the execution state store as it is.
C18_LastWriteWins ==
    [][ \A s \in StageIds :
          (last'.op \in {"execution_complete", "execution_error"} /\ last'.stage_id = s) =>
              /\ s \in DOMAIN executionStates'
              /\ executionStates'[s].status = C18_Mapped(last'.op, last'.arg)
              /\ Len(logs') > Len(logs)
              /\ logs'[Len(logs) + 1] = C18_Entry(last'.op, last'.arg)
              /\ last = last' => executionStates' = executionStates
      ]_vars

\* C18 witness: shutdownAll marked the running stage stopped and the failure
\* outcome that arrived next made it error
C18_Witness ==
    /\ last.op = "execution_complete"
    /\ last.arg = "failure"
    /\ executionStates[last.stage_id].status = "error"
    /\ \E i \in 1..(Len(logs) - 1) :
          /\ logs[i] = [message |-> <<"Shutdown requested for ", "1", " stage(s).">>,
                        type |-> "system"]
          /\ logs[i + 1] = [message |-> <<"Execution ", "failed", "!">>, type |-> "error"]

\* C19: run r sends an execute in this step
C19_Sends(r) == r > Len(runs) \/ runs'[r].executed # runs[r].executed

\* C19: a full-pipeline run sends an execute only while isAutoRunning is
\* true: a run that is already under way sends its next execute only in a
\* state where isAutoRunning is true, so not after shutdownAll has cleared
\* it, whatever outcome arrives for the stopped stage; and isAutoRunning is
\* true after every step in which a run sends an execute.
C19_NoExecuteAfterShutdown ==
    [][ \A r \in 1..Len(runs') :
          C19_Sends(r) =>
              /\ isAutoRunning'
              /\ r <= Len(runs) => isAutoRunning
      ]_vars

\* C20: the runs suspended on an await
C20_InFlight(rs) == { r \in 1..Len(rs) : rs[r].pc = "awaiting" }

\* C20: no two full-pipeline loops are suspended on an await at the same
\* time, also when startFullPipeline is invoked after shutdownAll has cleared
\* isAutoRunning while an earlier loop still awaits; and a loop that leaves
\* (and sets isAutoRunning to false) does so only when no other loop is
\* suspended.
C20_AtMostOneRun ==
    [][ /\ Cardinality(C20_InFlight(runs')) <= 1
        /\ \A r \in C20_InFlight(runs) :
              runs'[r].pc \in {"halted", "completed"} => C20_InFlight(runs') = {}
      ]_vars

\* C21: the status of stage id, idle when it has no entry
C21_Status(states, id) == IF id \in DOMAIN states THEN states[id].status ELSE "idle"

\* C21: the pending-input slot holds a request only for a running stage: a
\* running stage s whose request is in the slot stays running as long as the
\* slot holds it, so the slot is emptied no later than the step by which s
\* leaves running (a terminal event in particular); and stopStage aimed at a
\* stage other than s leaves the request of s in the slot.
C21_SlotFollowsRunning ==
    [][ /\ \A s \in StageIds :
              ( /\ waitingForInput = s
                /\ C21_Status(executionStates, s) = "running"
                /\ waitingForInput' = s )
                 => C21_Status(executionStates', s) = "running"
        /\ ( /\ Invoked("stopExecution")
             /\ selectedStage # NULL
             /\ waitingForInput # NULL
             /\ waitingForInput # selectedStage )
              => waitingForInput' = waitingForInput
      ]_vars

\* C22: the number of executes sent for stage id with no terminal event
\* received for them yet
C22_Outstanding(id) == Len(backend[id])

\* C22: no step sends an execute for a stage that has an execution
\* outstanding, neither executeStage nor a full-pipeline loop, and no step
\* sends two executes for one stage.
C22_NoExecuteWhileOutstanding ==
    [][ /\ \A i \in 1..Len(emitted') :
              emitted'[i].event = "execute_stage" =>
                  C22_Outstanding(emitted'[i].stage_id) = 0
        /\ \A i, j \in 1..Len(emitted') :
              ( /\ i # j
                /\ emitted'[i].event = "execute_stage"
                /\ emitted'[j].event = "execute_stage" )
                 => emitted'[i].stage_id # emitted'[j].stage_id
      ]_vars

\* C23: the await of run r is resolved in this step
C23_Resolved(r) ==
    /\ runs[r].pc = "awaiting"
    /\ runs'[r].pc # "awaiting" \/ runs'[r].idx # runs[r].idx

\* C23: the await of a full-pipeline loop for stage s is resolved only by a
\* terminal event for s that ends the execution the loop's own execute
\* started: at that step no execution of s that was outstanding when the
\* loop sent its execute is still outstanding, and the loop's own execution
\* has not ended before.
C23_ResolvedByOwnExecution ==
    [][ \A r \in 1..Len(runs) :
          C23_Resolved(r) =>
              /\ last'.op \in {"execution_complete", "execution_error"}
              /\ last'.stage_id = pipelineStagesAll[runs[r].idx].id
              /\ runs[r].ahead = 0
      ]_vars

\* C24: stage id has received execution-started for an execution that no
\* terminal event has ended
C24_Executing(b, id) == \E i \in 1..Len(b[id]) : b[id][i] = "started"

\* C24: stage id is recorded as running
C24_Tracked(states, id) == id \in DOMAIN states /\ states[id].status = "running"

\* C24: a stage that received execution-started is recorded as running until
\* a terminal event for it or a stop: the execution-started event records it
\* as running, and no step other than a terminal event for the stage,
\* stopStage and shutdownAll takes a still-executing stage out of the running
\* stages that shutdownAll stops; the clear operation in particular does not.
C24_RunningStaysTracked ==
    [][ \A s \in StageIds :
          /\ InvokedFor("execution_started", s) => C24_Tracked(executionStates', s)
          /\ ( /\ C24_Tracked(executionStates, s)
               /\ C24_Executing(backend, s)
               /\ C24_Executing(backend', s)
               /\ last'.op \notin {"stopExecution", "shutdownAll"}
               /\ ~(last'.op \in {"execution_complete", "execution_error"}
                      /\ last'.stage_id = s) )
                => C24_Tracked(executionStates', s)
      ]_vars

====
